---- MODULE Spec2Model ----
(***************************************************************************)
(* DNS Jumper (src/main.py): the profile list, the latency probe batches   *)
(* (Test All, Find Best DNS), the activation of a profile's servers        *)
(* through one pkexec invocation and the reset to automatic, as a state    *)
(* machine of the GTK main thread, its idle queue and the worker threads.  *)
(*                                                                         *)
(* A Python str is a sequence of one-character strings, so that strip,     *)
(* split, join and the address regexes are computed on characters.         *)
(***************************************************************************)
EXTENDS Integers, Sequences, FiniteSets, TLC

\* ------------------------------------------------------------------ bounds
\* Most probe batches (worker threads of Test All / Find Best DNS) alive at once.
MaxBatches == 1
\* Most activations / resets alive at once.
MaxOps == 2
\* Measured latencies are 1..MaxLatency milliseconds (0 is "no result").
MaxLatency == 2
\* Most profiles the list grows to through the Add dialog.
MaxProfiles == 2
\* Most callbacks waiting in the GLib idle queue: a thread that would post past
\* it waits for the main loop.
MaxIdle == 3

\* ------------------------------------------------------------- characters
Whitespace == {" "}
Digits == {"0", "1", "2", "3", "4", "5", "6", "7", "8", "9"}
HexDigits == Digits \cup {"A", "B", "C", "D", "E", "F", "a", "b", "c", "d", "e", "f"}

DigitVal(c) ==
    CASE c = "0" -> 0 [] c = "1" -> 1 [] c = "2" -> 2 [] c = "3" -> 3
      [] c = "4" -> 4 [] c = "5" -> 5 [] c = "6" -> 6 [] c = "7" -> 7
      [] c = "8" -> 8 [] c = "9" -> 9

\* Python None, where a str is expected.
None == <<"<None>">>

\* str.strip()
RECURSIVE lstrip(_)
lstrip(s) == IF s # <<>> /\ Head(s) \in Whitespace THEN lstrip(Tail(s)) ELSE s

RECURSIVE rstrip(_)
rstrip(s) ==
    IF s # <<>> /\ s[Len(s)] \in Whitespace THEN rstrip(SubSeq(s, 1, Len(s) - 1)) ELSE s

strip(s) == rstrip(lstrip(s))

\* The first position of character c in s, 0 when absent.
RECURSIVE find(_, _, _)
find(s, c, from) ==
    IF from > Len(s) THEN 0
    ELSE IF s[from] = c THEN from
    ELSE find(s, c, from + 1)

\* s.split(c): "".split(",") is [""], "a,".split(",") is ["a", ""].
RECURSIVE split(_, _)
split(s, c) ==
    LET k == find(s, c, 1) IN
    IF k = 0 THEN <<s>>
    ELSE <<SubSeq(s, 1, k - 1)>> \o split(SubSeq(s, k + 1, Len(s)), c)

\* sep.join(parts)
RECURSIVE join(_, _)
join(sep, parts) ==
    IF parts = <<>> THEN <<>>
    ELSE IF Len(parts) = 1 THEN parts[1]
    ELSE parts[1] \o sep \o join(sep, Tail(parts))

\* [x for x in xs if x] with x.strip() applied first:
\* [s.strip() for s in text.split(",") if s.strip()]
RECURSIVE strip_nonempty(_)
strip_nonempty(parts) ==
    IF parts = <<>> THEN <<>>
    ELSE LET s == strip(Head(parts)) IN
         IF s = <<>> THEN strip_nonempty(Tail(parts))
         ELSE <<s>> \o strip_nonempty(Tail(parts))

parse_servers(text) == strip_nonempty(split(text, ","))

\* ", ".join(servers)
format_servers(servers) == join(<<",", " ">>, servers)

\* ------------------------------------------------------------- validation
\* int(p) of a string of decimal digits
RECURSIVE int(_)
int(p) == IF p = <<>> THEN 0 ELSE 10 * int(SubSeq(p, 1, Len(p) - 1)) + DigitVal(p[Len(p)])

\* _ipv4_re: ^(?:\d{1,3}\.){3}\d{1,3}$
ipv4_re_match(a) ==
    LET parts == split(a, ".") IN
    /\ Len(parts) = 4
    /\ \A i \in 1..4 : /\ Len(parts[i]) \in 1..3
                       /\ \A j \in 1..Len(parts[i]) : parts[i][j] \in Digits

\* _ipv6_re: ^[0-9A-Fa-f:]+$
ipv6_re_match(a) ==
    /\ a # <<>>
    /\ \A j \in 1..Len(a) : a[j] \in HexDigits \cup {":"}

is_valid_ip(addr) ==
    LET a == strip(addr) IN
    IF a = <<>> THEN FALSE
    ELSE IF ipv4_re_match(a)
         THEN LET parts == split(a, ".") IN
              \A i \in 1..Len(parts) : 0 <= int(parts[i]) /\ int(parts[i]) <= 255
    ELSE IF find(a, ":", 1) # 0 THEN ipv6_re_match(a)
    ELSE FALSE

\* The outcome of sanitize_servers: the list, or the ValueError it raises.
InvalidAddress == "Invalid IP address"
InsufficientServers == "Provide two valid servers (primary & secondary)."

\* The loop of sanitize_servers over the servers from position i on, with the
\* list `out` built so far: the first invalid entry raises.
RECURSIVE sanitize_loop(_, _)
sanitize_loop(servers, out) ==
    IF servers = <<>> THEN [error |-> "", out |-> out]
    ELSE LET s == strip(Head(servers)) IN
         IF s = <<>> THEN sanitize_loop(Tail(servers), out)
         ELSE IF ~is_valid_ip(s) THEN [error |-> InvalidAddress, out |-> <<s>>]
         ELSE sanitize_loop(Tail(servers), Append(out, s))

\* Variant of sanitize_servers: the count is checked before the addresses.
sanitize_servers_count_first(servers) ==
    IF Len(strip_nonempty(servers)) < 2 THEN [error |-> InsufficientServers, out |-> <<>>]
    ELSE sanitize_loop(servers, <<>>)

sanitize_servers(servers) ==
    LET r == sanitize_loop(servers, <<>>) IN
    IF r.error # "" THEN r
    ELSE IF Len(r.out) < 2 THEN [error |-> InsufficientServers, out |-> <<>>]
    ELSE r

\* ------------------------------------------------------------ persistence
\* A JSON value of the persisted file, tagged with its type: a string holds its
\* characters as the one element of v, a list of strings holds them in v.
JStr(s) == [t |-> "str", v |-> <<s>>]
JList(l) == [t |-> "list", v |-> l]
JNull == [t |-> "null", v |-> <<>>]

\* Variant of load_name: the name is not read.
load_name_dropped(j) == <<>>

\* name = (p.get("name") or "").strip()
load_name(j) == IF j.t = "str" THEN strip(j.v[1]) ELSE <<>>

\* servers = p.get("servers") or []; a str is split on commas
load_servers(j) ==
    IF j.t = "str" THEN parse_servers(j.v[1])
    ELSE IF j.t = "list" THEN j.v
    ELSE <<>>

\* load_profiles(): the file is missing, unparsable ("corrupt") or a JSON array of
\* objects; json.load raising yields [].
load_profiles(f) ==
    IF f.state # "json" THEN <<>>
    ELSE [i \in 1..Len(f.data) |->
            [name |-> load_name(f.data[i].name), servers |-> load_servers(f.data[i].servers)]]

\* Other JSON values a file written by hand or by another program may hold: a
\* number, and a list with an element that is no string (its elements tagged).
JNum(n) == [t |-> "num", v |-> <<n>>]
JItems(l) == [t |-> "items", v |-> l]

\* A record of the array that is a JSON object; a key that is missing reads as
\* null, as p.get does.
is_object(p) == "name" \in DOMAIN p

\* bool(j): None, "", 0 and [] are falsy
json_truthy(j) ==
    CASE j.t = "null" -> FALSE
      [] j.t = "num" -> j.v[1] # 0
      [] j.t = "str" -> j.v[1] # <<>>
      [] OTHER -> j.v # <<>>

\* Whether the loop body of load_profiles raises on the record p: p.get on a
\* record that is no object, .strip() on a name that is truthy and no str.
record_raises(p) ==
    \/ ~is_object(p)
    \/ json_truthy(p.name) /\ p.name.t # "str"

\* servers = p.get("servers") or []; only a str is converted, any other truthy
\* value is kept as it is.
loaded_servers(j) ==
    IF ~json_truthy(j) THEN JList(<<>>)
    ELSE IF j.t = "str" THEN JList(parse_servers(j.v[1]))
    ELSE j

\* load_profiles() on any content: the name of each record returned is a str,
\* its servers are given as the JSON value of the Python object. On the files of
\* load_profiles(f) above (objects whose name is a string or null and whose
\* servers are a string, a list of strings or null) the two agree.
load_any(f) ==
    IF f.state # "json" THEN <<>>
    ELSE IF \E i \in 1..Len(f.data) : record_raises(f.data[i]) THEN <<>>
    ELSE [i \in 1..Len(f.data) |->
            [name |-> load_name(f.data[i].name), servers |-> loaded_servers(f.data[i].servers)]]

\* Whether every record load_profiles() returned has a list of str as servers.
strings_only(loaded) == \A i \in 1..Len(loaded) : loaded[i].servers.t = "list"

\* json.dump(profiles, f): the content save_profiles leaves when it succeeds.
dump_profiles(ps) ==
    [state |-> "json",
     data |-> [i \in 1..Len(ps) |-> [name |-> JStr(ps[i].name), servers |-> JList(ps[i].servers)]]]

\* Variant of save_outcomes: the call returns and nothing was written.
save_outcomes_unwritten(f, ps, may_fail) == {[ok |-> TRUE, file |-> f]}

\* save_profiles(profiles): open(..., "w") truncates the file before json.dump
\* writes; when the write raises, the file is left as it was (open failed) or
\* truncated (unparsable).
\* Without `may_fail` the environment lets every write succeed.
save_outcomes(f, ps, may_fail) ==
    {[ok |-> TRUE, file |-> dump_profiles(ps)]}
    \cup (IF may_fail
          THEN {[ok |-> FALSE, file |-> f],
                [ok |-> FALSE, file |-> [state |-> "corrupt", data |-> <<>>]]}
          ELSE {})

\* A row of the Gio.ListStore: a Profile GObject.
Row(name, servers, latency) == [name |-> name, servers |-> servers, latency |-> latency]

\* MainWindow.__init__: one Profile per loaded record, latency 0.0.
store_of(ps) == [i \in 1..Len(ps) |-> Row(ps[i].name, format_servers(ps[i].servers), 0)]

\* --------------------------------------------------------------- addresses
A_1111 == <<"1", ".", "1", ".", "1", ".", "1">>
A_1001 == <<"1", ".", "0", ".", "0", ".", "1">>
A_8888 == <<"8", ".", "8", ".", "8", ".", "8">>
A_8844 == <<"8", ".", "8", ".", "4", ".", "4">>
A_OPEN1 == <<"2", "0", "8", ".", "6", "7", ".", "2", "2", "2", ".", "2", "2", "2">>
A_OPEN2 == <<"2", "0", "8", ".", "6", "7", ".", "2", "2", "0", ".", "2", "2", "0">>
A_V6 == <<":", ":", "1">>
A_V6b == <<":", ":", "2">>
A_999 == <<"9", "9", "9", ".", "1", ".", "1", ".", "1">>

N_Cloudflare == <<"C", "l", "o", "u", "d", "f", "l", "a", "r", "e">>
N_Google == <<"G", "o", "o", "g", "l", "e", " ", "D", "N", "S">>
N_OpenDNS == <<"O", "p", "e", "n", "D", "N", "S">>

\* MainWindow.__init__: the default profiles
default_profiles ==
    << [name |-> N_Cloudflare, servers |-> <<A_1111, A_1001>>],
       [name |-> N_Google, servers |-> <<A_8888, A_8844>>],
       [name |-> N_OpenDNS, servers |-> <<A_OPEN1, A_OPEN2>>] >>

\* ------------------------------------------------------- active connection
U1 == <<"u", "1">>
U2 == <<"u", "2">>
WIFI == <<"w", "i", "f", "i">>
ETHERNET == <<"e", "t", "h", "e", "r", "n", "e", "t">>
VPN == <<"v", "p", "n">>
DEV0 == <<"e", "0">>

\* One line of `nmcli -t -f UUID,TYPE,DEVICE connection show --active`
Line(uuid, typ, dev) == uuid \o <<":">> \o typ \o <<":">> \o dev

\* lines = [l for l in out.splitlines() if l.strip()]
RECURSIVE nonblank(_)
nonblank(ls) ==
    IF ls = <<>> THEN <<>>
    ELSE IF strip(Head(ls)) = <<>> THEN nonblank(Tail(ls))
    ELSE <<Head(ls)>> \o nonblank(Tail(ls))

\* The first loop of get_active_connection_and_device: the first line with a
\* device and type wifi or ethernet; 0 when there is none.
RECURSIVE first_typed(_, _)
first_typed(lines, i) ==
    IF i > Len(lines) THEN 0
    ELSE LET parts == split(lines[i], ":") IN
         IF Len(parts) >= 3 /\ parts[3] # <<>> /\ parts[2] \in {WIFI, ETHERNET} THEN i
         ELSE first_typed(lines, i + 1)

\* get_active_connection_and_device(), on what nmcli printed (out.ok FALSE:
\* check_output raised): the pair (uuid, device).
get_active_connection_and_device(out) ==
    IF ~out.ok THEN [uuid |-> None, device |-> None]
    ELSE LET lines == nonblank(out.lines)
             k == first_typed(lines, 1) IN
         IF k # 0 THEN LET parts == split(lines[k], ":") IN [uuid |-> parts[1], device |-> parts[3]]
         ELSE IF lines # <<>>
              THEN LET parts == split(lines[1], ":") IN
                   [uuid |-> IF Len(parts) >= 1 THEN parts[1] ELSE None,
                    device |-> IF Len(parts) >= 3 THEN parts[3] ELSE None]
         ELSE [uuid |-> None, device |-> None]

\* Python truth of a str-or-None
truthy(s) == s # None /\ s # <<>>

\* What nmcli may print: nothing active, a wifi connection, a VPN listed before
\* an ethernet connection, a connection without a device, a line without fields.
NmcliOutputs ==
    { [ok |-> FALSE, lines |-> <<>>],
      [ok |-> TRUE, lines |-> <<>>],
      [ok |-> TRUE, lines |-> <<Line(U1, WIFI, DEV0), <<" ">>>>],
      [ok |-> TRUE, lines |-> <<Line(U2, VPN, <<>>), Line(U1, ETHERNET, DEV0)>>],
      [ok |-> TRUE, lines |-> <<Line(U2, VPN, <<>>)>>],
      [ok |-> TRUE, lines |-> <<Line(U2, VPN, DEV0)>>],
      [ok |-> TRUE, lines |-> <<U2>>] }

\* ---------------------------------------------------------------- commands
\* [s for s in servers if ":" not in s] and [s for s in servers if ":" in s]
RECURSIVE ipv4_list(_)
ipv4_list(servers) ==
    IF servers = <<>> THEN <<>>
    ELSE IF find(Head(servers), ":", 1) = 0 THEN <<Head(servers)>> \o ipv4_list(Tail(servers))
    ELSE ipv4_list(Tail(servers))

RECURSIVE ipv6_list(_)
ipv6_list(servers) ==
    IF servers = <<>> THEN <<>>
    ELSE IF find(Head(servers), ":", 1) # 0 THEN <<Head(servers)>> \o ipv6_list(Tail(servers))
    ELSE ipv6_list(Tail(servers))

\* One command of the shell line: the program, the connection or device it
\* addresses, the settings it writes and the DNS servers it carries.
Cmd(prog, target, setting, dns) == [prog |-> prog, target |-> target, setting |-> setting, dns |-> dns]

NMCLI_MODIFY == "nmcli connection modify"
NMCLI_UP == "nmcli connection up"
RESOLVECTL_DNS == "resolvectl dns"
RESOLVECTL_FLUSH == "resolvectl flush-caches"

\* cmd_parts of apply_dns_with_one_pkexec
apply_cmd_parts(servers, uuid, device) ==
    << IF ipv4_list(servers) # <<>>
       THEN Cmd(NMCLI_MODIFY, uuid, "ipv4.ignore-auto-dns yes ipv4.dns", ipv4_list(servers))
       ELSE Cmd(NMCLI_MODIFY, uuid, "ipv4.dns", <<>>),
       IF ipv6_list(servers) # <<>>
       THEN Cmd(NMCLI_MODIFY, uuid, "ipv6.ignore-auto-dns yes ipv6.dns", ipv6_list(servers))
       ELSE Cmd(NMCLI_MODIFY, uuid, "ipv6.dns", <<>>),
       Cmd(NMCLI_UP, uuid, "", <<>>) >>
    \o (IF truthy(device)
        THEN <<Cmd(RESOLVECTL_DNS, device, "", servers), Cmd(RESOLVECTL_FLUSH, <<>>, "", <<>>)>>
        ELSE <<>>)

\* cmd_parts of reset_dns_to_automatic
reset_cmd_parts(uuid, device) ==
    << Cmd(NMCLI_MODIFY, uuid, "ipv4.ignore-auto-dns no ipv4.dns", <<>>),
       Cmd(NMCLI_MODIFY, uuid, "ipv6.ignore-auto-dns no ipv6.dns", <<>>),
       Cmd(NMCLI_UP, uuid, "", <<>>) >>
    \o (IF truthy(device) THEN <<Cmd(RESOLVECTL_FLUSH, <<>>, "", <<>>)>> ELSE <<>>)

\* Variant of pkexec_requests: one pkexec call per command.
pkexec_per_command(cmd_parts) == [i \in 1..Len(cmd_parts) |-> <<cmd_parts[i]>>]

\* subprocess.check_call(["pkexec", "bash", "-c", shell_cmd]) with
\* shell_cmd = " && ".join(cmd_parts): the privileged requests an operation
\* issues, each the list of commands it carries.
pkexec_requests(cmd_parts) == <<cmd_parts>>

\* ------------------------------------------------------------------ state
VARIABLES
    dns,               \* whether `import dns.resolver` succeeded (dns is not None)
    file,              \* the content of CONFIG_FILE
    profiles,          \* self.profiles
    store,             \* self.store, the rows the list view shows
    latency_measured,  \* self._latency_measured
    is_setting_dns,    \* self._is_setting_dns
    sort_asc,          \* self._sort_asc
    sensitive,         \* the buttons' set_sensitive state
    label,             \* the buttons' labels
    toast,             \* the toast the last step showed with _info_toast, if any
    idle,              \* the callbacks queued with GLib.idle_add, oldest first
    batches,           \* the probe batches: worker threads and pending finish()
    ops                \* the executions of apply_dns_with_one_pkexec and reset_dns_to_automatic

vars == <<dns, file, profiles, store, latency_measured, is_setting_dns, sort_asc,
          sensitive, label, toast, idle, batches, ops>>

data_vars == <<file, profiles, store>>
button_vars == <<sensitive, label>>

\* float('inf')
Inf == MaxLatency + 1

\* _info_toast(text): the text, with the value formatted into it
Toast(text, arg) == [text |-> text, arg |-> arg]
NoToast == Toast("", <<>>)

\* The step shows no toast.
no_toast == toast' = NoToast

\* A callback handed to GLib.idle_add. play_success_sound and update_current_dns,
\* which write nothing of this state (a sound, the status bar's text), are not
\* queued. "unbound_toast" is a lambda of an except clause: Python unbinds the
\* clause's variable (ve, re, e) when the clause ends, so the lambda, run later by
\* the main loop, raises NameError before _info_toast is called.
Cb(kind, b, idx, val, t) == [kind |-> kind, b |-> b, idx |-> idx, val |-> val, toast |-> t]
SimpleCb(kind) == Cb(kind, 0, 0, 0, NoToast)
ToastCb(text, arg) == Cb("toast", 0, 0, 0, Toast(text, arg))

\* Variant of idle_add: the main loop runs the newest callback first.
idle_add_first(cbs) ==
    /\ Len(idle) + Len(cbs) <= MaxIdle
    /\ idle' = cbs \o idle

\* GLib.idle_add of the callbacks cbs, in order.
idle_add(cbs) ==
    /\ Len(idle) + Len(cbs) <= MaxIdle
    /\ idle' = idle \o cbs

\* The smallest identifier no record of S uses.
NewId(S) == CHOOSE i \in 1..(Cardinality(S) + 1) : i \notin {r.id : r \in S}

Replace(S, old, new) == (S \ {old}) \cup {new}

\* The GTK main thread runs one handler or idle callback at a time; finish() of
\* Find Best DNS keeps it inside apply_dns_with_one_pkexec until that returns.
MainFree == \A b \in batches : b.pc # "finishing"

Terminal == {"Done", "Failed"}

\* ---------------------------------------------------------- initial state
N_A == <<"A">>
N_B == <<"B">>

\* Contents CONFIG_FILE may have at startup.
NoFile == [state |-> "missing", data |-> <<>>]

OneProfile(name, servers) == [state |-> "json", data |-> <<[name |-> name, servers |-> servers]>>]

\* One profile: IPv4 only, IPv6 only, mixed, stored in the legacy
\* comma-separated form with an address that does not validate, with a single
\* server.
FileV4 == OneProfile(JStr(N_B), JList(<<A_1111, A_1001>>))
FileV6 == OneProfile(JStr(N_B), JList(<<A_V6, A_V6b>>))
FileMixed == OneProfile(JStr(N_B), JList(<<A_1111, A_V6>>))
FileLegacy == OneProfile(JStr(N_B), JStr(A_1001 \o <<",">> \o A_999))
FileSingle == OneProfile(JStr(N_A), JList(<<A_8888>>))

\* Two profiles, the second without a name.
FileTwo ==
    [state |-> "json",
     data |-> << [name |-> JStr(N_B), servers |-> JList(<<A_1111, A_1001>>)],
                 [name |-> JNull, servers |-> JList(<<A_V6, A_V6b>>)] >>]

\* MainWindow.__init__
InitFrom(f, d) ==
    /\ dns = d
    /\ profiles = (IF load_profiles(f) = <<>> THEN default_profiles ELSE load_profiles(f))
    /\ file = (IF load_profiles(f) = <<>> THEN dump_profiles(default_profiles) ELSE f)
    /\ store = store_of(profiles)
    /\ latency_measured = FALSE
    /\ is_setting_dns = FALSE
    /\ sort_asc = TRUE
    /\ sensitive = [test |-> TRUE, set |-> TRUE, best |-> TRUE, reset |-> TRUE, sort |-> FALSE]
    /\ label = [test |-> "Test All", set |-> "Set DNS", best |-> "Find Best DNS",
                reset |-> "Reset DNS", sort |-> "Sort by Latency"]
    /\ toast = NoToast
    /\ idle = <<>>
    /\ batches = {}
    /\ ops = {}

Init ==
    \E f \in {NoFile, FileV4, FileV6, FileMixed, FileLegacy, FileSingle, FileTwo}, d \in BOOLEAN :
        InitFrom(f, d)

\* The window is closed while nothing is in flight and the program is started
\* again: MainWindow.__init__ on the file as the last run left it. A start whose
\* save_profiles raises shows no window and leaves the file as it was or
\* unparsable; load_profiles yields [] on both, so the start after it seeds the
\* defaults as this one does, and the two are one step here.
restart ==
    /\ idle = <<>>
    /\ batches = {}
    /\ ops = {}
    /\ profiles' = (IF load_profiles(file) = <<>> THEN default_profiles ELSE load_profiles(file))
    /\ file' = (IF load_profiles(file) = <<>> THEN dump_profiles(default_profiles) ELSE file)
    /\ store' = store_of(profiles')
    /\ latency_measured' = FALSE
    /\ is_setting_dns' = FALSE
    /\ sort_asc' = TRUE
    /\ sensitive' = [test |-> TRUE, set |-> TRUE, best |-> TRUE, reset |-> TRUE, sort |-> FALSE]
    /\ label' = [test |-> "Test All", set |-> "Set DNS", best |-> "Find Best DNS",
                 reset |-> "Reset DNS", sort |-> "Sort by Latency"]
    /\ UNCHANGED <<dns, idle, batches, ops>> /\ no_toast

\* No window is shown: there is no button to act on.
NoButtons == [test |-> FALSE, set |-> FALSE, best |-> FALSE, reset |-> FALSE, sort |-> FALSE]

\* The program is about to be started on the file f.
BeforeStart(f) ==
    /\ dns = TRUE
    /\ file = f
    /\ profiles = <<>>
    /\ store = <<>>
    /\ latency_measured = FALSE
    /\ is_setting_dns = FALSE
    /\ sort_asc = TRUE
    /\ sensitive = NoButtons
    /\ label = [test |-> "Test All", set |-> "Set DNS", best |-> "Find Best DNS",
                reset |-> "Reset DNS", sort |-> "Sort by Latency"]
    /\ toast = NoToast
    /\ idle = <<>>
    /\ batches = {}
    /\ ops = {}

\* DNSJumperApp.do_activate: MainWindow.__init__ on any content of the file.
\* When a loaded record's servers are no list of str, ", ".join(...) raises
\* TypeError while the store is filled, and no window is presented.
start ==
    /\ sensitive = NoButtons
    /\ LET loaded == load_any(file) IN
       IF loaded # <<>> /\ ~strings_only(loaded)
       THEN UNCHANGED <<data_vars, sensitive>>
       ELSE /\ profiles' = (IF loaded = <<>> THEN default_profiles
                            ELSE [i \in 1..Len(loaded) |->
                                    [name |-> loaded[i].name, servers |-> loaded[i].servers.v]])
            /\ file' = (IF loaded = <<>> THEN dump_profiles(default_profiles) ELSE file)
            /\ store' = store_of(profiles')
            /\ sensitive' = [test |-> TRUE, set |-> TRUE, best |-> TRUE, reset |-> TRUE,
                             sort |-> FALSE]
    /\ UNCHANGED <<dns, latency_measured, is_setting_dns, sort_asc, label, idle, batches, ops>>
    /\ no_toast

\* The program holds the profile sequence x and has written no file.
Holding(x) ==
    /\ dns = TRUE
    /\ file = NoFile
    /\ profiles = x
    /\ store = <<>>
    /\ latency_measured = FALSE
    /\ is_setting_dns = FALSE
    /\ sort_asc = TRUE
    /\ sensitive = NoButtons
    /\ label = [test |-> "Test All", set |-> "Set DNS", best |-> "Find Best DNS",
                reset |-> "Reset DNS", sort |-> "Sort by Latency"]
    /\ toast = NoToast
    /\ idle = <<>>
    /\ batches = {}
    /\ ops = {}

\* save_profiles(profiles), the write going through
save ==
    /\ \E w \in save_outcomes(file, profiles, FALSE) : file' = w.file
    /\ UNCHANGED <<dns, profiles, store, latency_measured, is_setting_dns, sort_asc,
                   button_vars, idle, batches, ops>> /\ no_toast

\* profiles = load_profiles()
load ==
    /\ profiles' = load_profiles(file)
    /\ UNCHANGED <<dns, file, store, latency_measured, is_setting_dns, sort_asc,
                   button_vars, idle, batches, ops>> /\ no_toast

\* ------------------------------------------------------------ probe batches
\* A probe batch: the worker thread of on_test_all / on_find_best_dns with its
\* locals, and, after the loop, its finish() waiting in the idle queue. probed
\* and delivered record what the worker measured and what update() received.
NewBatch(kind) ==
    [id |-> NewId(batches), kind |-> kind, pc |-> "start", n |-> 0, i |-> 0,
     any_latency |-> FALSE, best_latency |-> Inf, best_servers |-> <<>>, best_index |-> -1,
     probed |-> <<>>, delivered |-> <<>>]

\* on_test_all, up to starting the worker thread
on_test_all ==
    /\ MainFree
    /\ sensitive.test
    /\ IF ~dns
       THEN /\ toast' = Toast("Install dnspython: sudo apt install python3-dnspython", <<>>)
            /\ UNCHANGED <<dns, data_vars, latency_measured, is_setting_dns, sort_asc,
                           button_vars, idle, batches, ops>>
       ELSE /\ Cardinality(batches) < MaxBatches
            /\ sensitive' = [sensitive EXCEPT !.test = FALSE, !.sort = FALSE]
            /\ label' = [label EXCEPT !.test = "Testing"]
            /\ batches' = batches \cup {NewBatch("test")}
            /\ UNCHANGED <<dns, data_vars, latency_measured, is_setting_dns, sort_asc,
                           idle, ops>> /\ no_toast

\* on_find_best_dns, up to starting the worker thread
on_find_best_dns ==
    /\ MainFree
    /\ sensitive.best
    /\ IF ~dns
       THEN /\ toast' = Toast("Install dnspython: sudo apt install python3-dnspython", <<>>)
            /\ UNCHANGED <<dns, data_vars, latency_measured, is_setting_dns, sort_asc,
                           button_vars, idle, batches, ops>>
       ELSE /\ Cardinality(batches) < MaxBatches
            /\ sensitive' = [sensitive EXCEPT !.best = FALSE, !.test = FALSE,
                                              !.set = FALSE, !.reset = FALSE]
            /\ label' = [label EXCEPT !.best = "Finding Best DNS"]
            /\ batches' = batches \cup {NewBatch("best")}
            /\ UNCHANGED <<dns, data_vars, latency_measured, is_setting_dns, sort_asc,
                           idle, ops>> /\ no_toast

\* worker(): n = self.store.get_n_items()
worker_start(b) ==
    /\ b.pc = "start"
    /\ batches' = Replace(batches, b, [b EXCEPT !.pc = "loop", !.n = Len(store)])
    /\ UNCHANGED <<dns, data_vars, latency_measured, is_setting_dns, sort_asc,
                   button_vars, idle, ops>> /\ no_toast

\* measure_dns_latency(servers) or 0.0: None without servers or when every
\* server fails, else the mean of the answers' times.
measure_dns_latency(servers) == IF servers = <<>> THEN {0} ELSE 0..MaxLatency

\* Variant of measured: a latency of 0.0 counts as a result.
measured_counting_zero(b, servers, lat) ==
    LET better == b.kind = "best" /\ lat > 0 /\ lat < b.best_latency IN
    [b EXCEPT !.i = b.i + 1,
              !.any_latency = TRUE,
              !.best_latency = IF better THEN lat ELSE b.best_latency,
              !.best_servers = IF better THEN servers ELSE b.best_servers,
              !.best_index = IF better THEN b.i ELSE b.best_index,
              !.probed = Append(b.probed, [idx |-> b.i, servers |-> servers, lat |-> lat])]

\* Variant of measured: `latency <= best_latency`, the last of equal latencies wins.
measured_last_wins(b, servers, lat) ==
    LET better == b.kind = "best" /\ lat > 0 /\ lat <= b.best_latency IN
    [b EXCEPT !.i = b.i + 1,
              !.any_latency = b.any_latency \/ lat > 0,
              !.best_latency = IF better THEN lat ELSE b.best_latency,
              !.best_servers = IF better THEN servers ELSE b.best_servers,
              !.best_index = IF better THEN b.i ELSE b.best_index,
              !.probed = Append(b.probed, [idx |-> b.i, servers |-> servers, lat |-> lat])]

\* The worker's locals after measuring `lat` on `servers` at index b.i.
measured(b, servers, lat) ==
    LET better == b.kind = "best" /\ lat > 0 /\ lat < b.best_latency IN
    [b EXCEPT !.i = b.i + 1,
              !.any_latency = b.any_latency \/ lat > 0,
              !.best_latency = IF better THEN lat ELSE b.best_latency,
              !.best_servers = IF better THEN servers ELSE b.best_servers,
              !.best_index = IF better THEN b.i ELSE b.best_index,
              !.probed = Append(b.probed, [idx |-> b.i, servers |-> servers, lat |-> lat])]

\* One iteration of the worker's loop `for i in range(n)`: get_item(i) past the
\* end of the store is None, the AttributeError is swallowed and no update is
\* posted.
worker_probe(b) ==
    /\ b.pc = "loop"
    /\ b.i < b.n
    /\ IF b.i >= Len(store)
       THEN /\ batches' = Replace(batches, b, [b EXCEPT !.i = b.i + 1])
            /\ UNCHANGED idle
       ELSE LET servers == parse_servers(store[b.i + 1].servers) IN
            \E lat \in measure_dns_latency(servers) :
                /\ batches' = Replace(batches, b, measured(b, servers, lat))
                /\ idle_add(<<Cb("update", b.id, b.i, lat, NoToast)>>)
    /\ UNCHANGED <<dns, data_vars, latency_measured, is_setting_dns, sort_asc,
                   button_vars, ops>> /\ no_toast

\* After the loop: GLib.idle_add(finish); the worker thread ends.
worker_post_finish(b) ==
    /\ b.pc = "loop"
    /\ b.i >= b.n
    /\ batches' = Replace(batches, b, [b EXCEPT !.pc = "posted"])
    /\ idle_add(<<Cb("finish", b.id, 0, 0, NoToast)>>)
    /\ UNCHANGED <<dns, data_vars, latency_measured, is_setting_dns, sort_asc,
                   button_vars, ops>> /\ no_toast

\* ------------------------------------------------- activation and reset
\* One execution of apply_dns_with_one_pkexec (kind "set": the worker thread of
\* on_set_selected; kind "best": called by finish() of batch `owner` on the main
\* thread) or of reset_dns_to_automatic (kind "reset"), with its locals. phases,
\* pkexec (the privileged requests issued), ran (how many of their commands
\* succeeded) and plain (the commands run without privilege) record what it did,
\* arg the servers it was called with.
NewOp(kind, owner, servers) ==
    [id |-> NewId(ops), kind |-> kind, owner |-> owner,
     pc |-> IF kind = "reset" THEN "Resolving" ELSE "Validating",
     arg |-> servers, servers |-> servers, uuid |-> None, device |-> None, cmd_parts |-> <<>>,
     pkexec |-> <<>>, ran |-> 0, plain |-> <<>>, out4 |-> <<>>, out6 |-> <<>>,
     exc |-> "", error |-> "", phases |-> <<>>]

NoActiveConnection == "No active NetworkManager connection found"
ApplyFailed == "Privileged command failed"
NotVisible == "DNS not visible via nmcli after applying."
VerifyFailed == "Failed to verify nmcli connection settings after apply"

Raise(o, exc, error) == [o EXCEPT !.pc = "Failed", !.exc = exc, !.error = error]

\* Variant of op_validate: the servers are stripped but not validated.
op_validate_skipped(o) ==
    /\ o.pc = "Validating"
    /\ ops' = Replace(ops, o, [o EXCEPT !.phases = Append(o.phases, "Validating"),
                                        !.pc = "Resolving",
                                        !.servers = strip_nonempty(o.servers)])
    /\ UNCHANGED <<dns, data_vars, latency_measured, is_setting_dns, sort_asc,
                   button_vars, idle, batches>> /\ no_toast

\* servers = sanitize_servers(servers)
op_validate(o) ==
    /\ o.pc = "Validating"
    /\ LET r == sanitize_servers(o.servers)
           o1 == [o EXCEPT !.phases = Append(o.phases, "Validating")] IN
       ops' = Replace(ops, o,
                 IF r.error # "" THEN Raise(o1, "ValueError", r.error)
                 ELSE [o1 EXCEPT !.pc = "Resolving", !.servers = r.out])
    /\ UNCHANGED <<dns, data_vars, latency_measured, is_setting_dns, sort_asc,
                   button_vars, idle, batches>> /\ no_toast

\* uuid, device = get_active_connection_and_device(); the command list is built
\* and pkexec is started.
op_resolve(o, outs) ==
    /\ o.pc = "Resolving"
    /\ \E out \in outs :
         LET c == get_active_connection_and_device(out)
             o1 == [o EXCEPT !.phases = Append(o.phases, "Resolving"),
                             !.plain = Append(o.plain, "nmcli connection show --active")] IN
         ops' = Replace(ops, o,
                   IF ~truthy(c.uuid) THEN Raise(o1, "RuntimeError", NoActiveConnection)
                   ELSE [o1 EXCEPT !.pc = "Applying", !.uuid = c.uuid, !.device = c.device,
                                   !.cmd_parts = IF o.kind = "reset"
                                                 THEN reset_cmd_parts(c.uuid, c.device)
                                                 ELSE apply_cmd_parts(o.servers, c.uuid, c.device)])
    /\ UNCHANGED <<dns, data_vars, latency_measured, is_setting_dns, sort_asc,
                   button_vars, idle, batches>> /\ no_toast

\* Variant of after_pkexec: the call is repeated until it succeeds.
after_pkexec_retry(o) ==
    IF o.ran < Len(o.cmd_parts) THEN o
    ELSE [o EXCEPT !.pc = IF o.kind = "reset" THEN "Done" ELSE "Verifying"]

\* Variant of after_pkexec: the exit status is not looked at (subprocess.call).
after_pkexec_unchecked(o) == [o EXCEPT !.pc = IF o.kind = "reset" THEN "Done" ELSE "Verifying"]

\* check_call raises CalledProcessError on a non-zero exit status, which becomes
\* the RuntimeError; else the function goes on (reset_dns_to_automatic returns).
after_pkexec(o) ==
    IF o.ran < Len(o.cmd_parts) THEN Raise(o, "RuntimeError", ApplyFailed)
    ELSE [o EXCEPT !.pc = IF o.kind = "reset" THEN "Done" ELSE "Verifying"]

\* subprocess.check_call(["pkexec", "bash", "-c", shell_cmd]) returns: the
\* commands are joined with &&, so the first k succeed and the call fails unless
\* k is all of them (k = 0 also when the authorisation is refused). Without
\* `partial` the environment either refuses or runs everything.
op_apply(o, partial) ==
    /\ o.pc = "Applying"
    /\ \E k \in {j \in 0..Len(o.cmd_parts) : partial \/ j \in {0, Len(o.cmd_parts)}} :
         ops' = Replace(ops, o,
                   after_pkexec([o EXCEPT !.phases = Append(o.phases, "Applying"),
                                          !.pkexec = o.pkexec \o pkexec_requests(o.cmd_parts),
                                          !.ran = k]))
    /\ UNCHANGED <<dns, data_vars, latency_measured, is_setting_dns, sort_asc,
                   button_vars, idle, batches>> /\ no_toast

\* What `nmcli -g ipv4.dns connection show uuid` and the ipv6 one may print
\* (a space stands for the line end), and which of the two calls fails (0: none).
ReadBackText == {<<" ">>, A_1111 \o <<" ">>}
ReadBacks ==
    {[fail |-> 1, out4 |-> <<>>, out6 |-> <<>>]}
    \cup {[fail |-> 2, out4 |-> t, out6 |-> <<>>] : t \in ReadBackText}
    \cup {[fail |-> 0, out4 |-> t, out6 |-> u] : t \in ReadBackText, u \in ReadBackText}

\* Variant of after_read_back: an empty read-back raises the error of a failed
\* privileged command.
after_read_back_as_apply_failure(o) ==
    IF o.out4 = <<>> /\ o.out6 = <<>> THEN Raise(o, "RuntimeError", ApplyFailed)
    ELSE [o EXCEPT !.pc = "Done"]

\* if not (out4 or out6): raise RuntimeError(...)
after_read_back(o) ==
    IF o.out4 = <<>> /\ o.out6 = <<>> THEN Raise(o, "RuntimeError", NotVisible)
    ELSE [o EXCEPT !.pc = "Done"]

\* The read-back of apply_dns_with_one_pkexec after pkexec succeeded.
op_verify(o, rbs) ==
    /\ o.pc = "Verifying"
    /\ \E rb \in rbs :
         LET out4 == strip(rb.out4)
             out6 == strip(rb.out6)
             o1 == [o EXCEPT !.phases = Append(o.phases, "Verifying"),
                             !.plain = o.plain \o (IF rb.fail = 1
                                                   THEN <<"nmcli -g ipv4.dns connection show">>
                                                   ELSE <<"nmcli -g ipv4.dns connection show",
                                                          "nmcli -g ipv6.dns connection show">>),
                             !.out4 = out4, !.out6 = out6] IN
         ops' = Replace(ops, o,
                   IF rb.fail # 0 THEN Raise(o1, "RuntimeError", VerifyFailed)
                   ELSE after_read_back(o1))
    /\ UNCHANGED <<dns, data_vars, latency_measured, is_setting_dns, sort_asc,
                   button_vars, idle, batches>> /\ no_toast

\* on_set_selected past its guard, for the selected row idx (get_selected(): a row of the store
\* when it has rows, else GTK_INVALID_LIST_POSITION, for which get_item is None
\* and the handler ends in an AttributeError).
set_selected(idx) ==
    IF idx >= Len(store) THEN UNCHANGED vars
    ELSE LET servers == parse_servers(store[idx + 1].servers) IN
         IF Len(servers) < 2
         THEN /\ toast' = Toast("Provide at least two DNS servers before applying", <<>>)
              /\ UNCHANGED <<dns, data_vars, latency_measured, is_setting_dns, sort_asc,
                             button_vars, idle, batches, ops>>
         ELSE /\ Cardinality(ops) < MaxOps
              /\ is_setting_dns' = TRUE
              /\ sensitive' = [sensitive EXCEPT !.set = FALSE, !.best = FALSE, !.reset = FALSE]
              /\ label' = [label EXCEPT !.set = "Applying"]
              /\ ops' = ops \cup {NewOp("set", 0, servers)}
              /\ UNCHANGED <<dns, data_vars, latency_measured, sort_asc, idle, batches>> /\ no_toast

\* Variant of on_set_selected: no look at _is_setting_dns.
on_set_selected_unguarded(idx) == set_selected(idx)

\* on_set_selected: `if self._is_setting_dns: return`, then the rest.
on_set_selected(idx) == IF is_setting_dns THEN UNCHANGED vars ELSE set_selected(idx)

\* The rows get_selected() may name.
Selectable == IF store = <<>> THEN {0} ELSE 0..(Len(store) - 1)

\* A click on Set DNS
set_clicked ==
    /\ MainFree
    /\ sensitive.set
    /\ \E idx \in Selectable : on_set_selected(idx)

\* on_key_released with Return or Enter on the list view (shown when the store
\* has rows)
on_key_released ==
    /\ MainFree
    /\ store # <<>>
    /\ IF is_setting_dns THEN UNCHANGED vars
       ELSE \E idx \in Selectable : on_set_selected(idx)

\* Variant of set_worker_report: the callbacks of finally are queued only when
\* the apply returned.
set_worker_report_without_finally(o) ==
    /\ o.kind = "set"
    /\ o.pc \in Terminal
    /\ idle_add(IF o.pc = "Done"
                THEN <<ToastCb("DNS applied", <<>>), SimpleCb("restore_set"),
                       SimpleCb("enable_best_reset")>>
                ELSE <<SimpleCb("unbound_toast")>>)
    /\ ops' = Replace(ops, o, [o EXCEPT !.pc = "Finally"])
    /\ UNCHANGED <<dns, data_vars, latency_measured, is_setting_dns, sort_asc,
                   button_vars, batches>> /\ no_toast

\* The worker of on_set_selected after apply_dns_with_one_pkexec returned or
\* raised: the except clauses and the idle_add calls of finally.
set_worker_report(o) ==
    /\ o.kind = "set"
    /\ o.pc \in Terminal
    /\ idle_add((IF o.pc = "Done"
                 THEN <<ToastCb("DNS applied", <<>>)>>
                 ELSE <<SimpleCb("unbound_toast")>>)
                \o <<SimpleCb("restore_set"), SimpleCb("enable_best_reset")>>)
    /\ ops' = Replace(ops, o, [o EXCEPT !.pc = "Finally"])
    /\ UNCHANGED <<dns, data_vars, latency_measured, is_setting_dns, sort_asc,
                   button_vars, batches>> /\ no_toast

\* finally: self._is_setting_dns = False; the worker thread ends.
set_worker_clear(o) ==
    /\ o.kind = "set"
    /\ o.pc = "Finally"
    /\ is_setting_dns' = FALSE
    /\ ops' = ops \ {o}
    /\ UNCHANGED <<dns, data_vars, latency_measured, sort_asc, button_vars, idle, batches>> /\ no_toast

\* on_reset_dns, up to starting the worker thread
on_reset_dns ==
    /\ MainFree
    /\ sensitive.reset
    /\ Cardinality(ops) < MaxOps
    /\ sensitive' = [sensitive EXCEPT !.reset = FALSE, !.set = FALSE, !.best = FALSE]
    /\ label' = [label EXCEPT !.reset = "Resetting"]
    /\ ops' = ops \cup {NewOp("reset", 0, <<>>)}
    /\ UNCHANGED <<dns, data_vars, latency_measured, is_setting_dns, sort_asc, idle, batches>> /\ no_toast

\* The worker of on_reset_dns after reset_dns_to_automatic returned or raised;
\* the worker thread ends.
reset_worker_report(o) ==
    /\ o.kind = "reset"
    /\ o.pc \in Terminal
    /\ idle_add((IF o.pc = "Done"
                 THEN <<ToastCb("DNS reset to automatic", <<>>)>>
                 ELSE <<SimpleCb("unbound_toast")>>)
                \o <<SimpleCb("restore_reset"), SimpleCb("enable_set_best")>>)
    /\ ops' = ops \ {o}
    /\ UNCHANGED <<dns, data_vars, latency_measured, is_setting_dns, sort_asc,
                   button_vars, batches>> /\ no_toast

\* ------------------------------------------------------- idle callbacks
\* update(idx, val) of a probe worker: get_item(idx) past the end of the store
\* is None and the AttributeError is swallowed.
run_update(cb) ==
    /\ store' = IF cb.idx < Len(store)
                THEN [store EXCEPT ![cb.idx + 1].latency = cb.val]
                ELSE store
    /\ batches' = {IF b.id = cb.b
                   THEN [b EXCEPT !.delivered =
                            Append(b.delivered, [idx |-> cb.idx, val |-> cb.val,
                                                 applied |-> cb.idx < Len(store)])]
                   ELSE b : b \in batches}
    /\ idle' = Tail(idle)
    /\ UNCHANGED <<dns, file, profiles, latency_measured, is_setting_dns, sort_asc,
                   button_vars, ops>> /\ no_toast

\* finish() of on_test_all
finish_test(b) ==
    /\ latency_measured' = b.any_latency
    /\ label' = [label EXCEPT !.test = "Test All"]
    /\ sensitive' = [sensitive EXCEPT !.test = TRUE, !.sort = b.any_latency]
    /\ toast' = IF b.any_latency THEN Toast("Tests completed", <<>>)
                ELSE Toast("No latency results (network/servers?)", <<>>)
    /\ batches' = batches \ {b}
    /\ idle' = Tail(idle)
    /\ UNCHANGED <<dns, data_vars, is_setting_dns, sort_asc, ops>>

\* finish() of on_find_best_dns up to the call of apply_dns_with_one_pkexec,
\* which keeps the main thread until it returns; without a best profile, all of
\* finish().
finish_best(b) ==
    /\ latency_measured' = b.any_latency
    /\ label' = [label EXCEPT !.best = "Find Best DNS"]
    /\ idle' = Tail(idle)
    /\ IF b.any_latency /\ b.best_servers # <<>>
       THEN /\ Cardinality(ops) < MaxOps
            /\ sensitive' = [sensitive EXCEPT !.best = TRUE, !.test = TRUE,
                                              !.set = TRUE, !.reset = TRUE]
            /\ ops' = ops \cup {NewOp("best", b.id, b.best_servers)}
            /\ batches' = Replace(batches, b, [b EXCEPT !.pc = "finishing"])
            /\ no_toast
       ELSE /\ sensitive' = [sensitive EXCEPT !.best = TRUE, !.test = TRUE, !.set = TRUE,
                                              !.reset = TRUE,
                                              !.sort = sensitive.sort \/ b.any_latency]
            /\ toast' = Toast("No valid latency results", <<>>)
            /\ batches' = batches \ {b}
            /\ UNCHANGED ops
    /\ UNCHANGED <<dns, data_vars, is_setting_dns, sort_asc>>

\* The rest of finish() of on_find_best_dns once apply_dns_with_one_pkexec
\* returned or raised: the toast names the row now at best_index, and a missing
\* row raises inside the try block.
finish_best_end(o) ==
    /\ o.kind = "best"
    /\ o.pc \in Terminal
    /\ \E b \in batches :
         /\ b.id = o.owner
         /\ b.pc = "finishing"
         /\ IF o.pc = "Done" /\ b.best_index < Len(store)
            THEN toast' = Toast("Applied fastest DNS", store[b.best_index + 1].name)
            ELSE toast' = Toast("Failed to apply DNS",
                                <<IF o.pc = "Done" THEN "'NoneType' object has no attribute 'get_property'"
                                  ELSE o.error>>)
         /\ sensitive' = [sensitive EXCEPT !.sort = sensitive.sort \/ b.any_latency]
         /\ batches' = batches \ {b}
    /\ ops' = ops \ {o}
    /\ UNCHANGED <<dns, data_vars, latency_measured, is_setting_dns, sort_asc, label, idle>>

\* The main loop runs the oldest idle callback.
run_idle ==
    /\ MainFree
    /\ idle # <<>>
    /\ LET cb == Head(idle) IN
       CASE cb.kind = "update" -> run_update(cb)
         [] cb.kind = "finish" ->
              \E b \in batches :
                  /\ b.id = cb.b
                  /\ IF b.kind = "test" THEN finish_test(b) ELSE finish_best(b)
         [] cb.kind = "toast" ->
              /\ toast' = cb.toast
              /\ idle' = Tail(idle)
              /\ UNCHANGED <<dns, data_vars, latency_measured, is_setting_dns, sort_asc,
                             button_vars, batches, ops>>
         [] cb.kind = "unbound_toast" ->
              /\ idle' = Tail(idle)
              /\ UNCHANGED <<dns, data_vars, latency_measured, is_setting_dns, sort_asc,
                             button_vars, batches, ops>> /\ no_toast
         [] cb.kind = "restore_set" ->
              /\ label' = [label EXCEPT !.set = "Set DNS"]
              /\ sensitive' = [sensitive EXCEPT !.set = TRUE]
              /\ idle' = Tail(idle)
              /\ UNCHANGED <<dns, data_vars, latency_measured, is_setting_dns, sort_asc,
                             batches, ops>> /\ no_toast
         [] cb.kind = "enable_best_reset" ->
              /\ sensitive' = [sensitive EXCEPT !.best = TRUE, !.reset = TRUE]
              /\ idle' = Tail(idle)
              /\ UNCHANGED <<dns, data_vars, latency_measured, is_setting_dns, sort_asc,
                             label, batches, ops>> /\ no_toast
         [] cb.kind = "restore_reset" ->
              /\ label' = [label EXCEPT !.reset = "Reset DNS"]
              /\ sensitive' = [sensitive EXCEPT !.reset = TRUE]
              /\ idle' = Tail(idle)
              /\ UNCHANGED <<dns, data_vars, latency_measured, is_setting_dns, sort_asc,
                             batches, ops>> /\ no_toast
         [] OTHER ->  \* "enable_set_best"
              /\ sensitive' = [sensitive EXCEPT !.set = TRUE, !.best = TRUE]
              /\ idle' = Tail(idle)
              /\ UNCHANGED <<dns, data_vars, latency_measured, is_setting_dns, sort_asc,
                             label, batches, ops>> /\ no_toast

\* ------------------------------------------------------- profile list edits
\* What the user may type into the Add dialog (name, primary, secondary): a
\* valid profile, no name, an address that does not validate, one server only.
ValidEntry == <<N_A \o <<" ">>, A_8888 \o <<" ">>, A_8844>>
AddEntries ==
    { ValidEntry,
      <<<<" ">>, A_8888, A_8844>>,
      <<N_A, A_8888, A_999>>,
      <<N_A, <<>>, A_8844>> }

\* _on_add_profile_response with response OK and the dialog's entries
on_add_profile_response(name_text, primary, secondary, may_fail) ==
    /\ MainFree
    /\ LET name == strip(name_text)
           servers == strip_nonempty(<<primary, secondary>>)
           r == sanitize_servers(servers) IN
       IF name = <<>>
       THEN /\ toast' = Toast("Enter a profile name.", <<>>)
            /\ UNCHANGED <<data_vars>>
       ELSE IF r.error # ""
       THEN /\ toast' = Toast(r.error, r.out)
            /\ UNCHANGED <<data_vars>>
       ELSE /\ Len(profiles) < MaxProfiles
            /\ Len(store) < MaxProfiles
            /\ profiles' = Append(profiles, [name |-> name, servers |-> r.out])
            /\ \E w \in save_outcomes(file, profiles', may_fail) :
                 /\ file' = w.file
                 /\ IF w.ok
                    THEN /\ store' = Append(store, Row(name, format_servers(r.out), 0))
                         /\ toast' = Toast("Profile added", <<>>)
                    ELSE UNCHANGED <<store>> /\ no_toast
    /\ UNCHANGED <<dns, latency_measured, is_setting_dns, sort_asc, button_vars, idle,
                   batches, ops>>

\* list.pop(idx) and store.remove(idx)
RemoveAt(seq, idx) == SubSeq(seq, 1, idx) \o SubSeq(seq, idx + 2, Len(seq))

\* on_delete_clicked on the row at index idx of the store
on_delete_clicked(idx, may_fail) ==
    /\ MainFree
    /\ idx < Len(store)
    /\ IF idx >= Len(profiles)
       THEN /\ toast' = Toast("Delete failed", <<"pop index out of range">>)
            /\ UNCHANGED data_vars
       ELSE /\ profiles' = RemoveAt(profiles, idx)
            /\ \E w \in save_outcomes(file, profiles', may_fail) :
                 /\ file' = w.file
                 /\ IF w.ok
                    THEN /\ store' = RemoveAt(store, idx)
                         /\ toast' = Toast("Profile deleted", <<>>)
                    ELSE /\ toast' = Toast("Delete failed", <<"save_profiles">>)
                         /\ UNCHANGED store
    /\ UNCHANGED <<dns, latency_measured, is_setting_dns, sort_asc, button_vars, idle,
                   batches, ops>>

\* The characters of the model in code point order: str comparison.
Alphabet ==
    <<" ", ",", ".", "0", "1", "2", "3", "4", "5", "6", "7", "8", "9", ":",
      "A", "B", "C", "D", "G", "N", "O", "S",
      "a", "d", "e", "f", "g", "l", "n", "o", "p", "r", "u">>

ord(c) == CHOOSE k \in 1..Len(Alphabet) : Alphabet[k] = c

\* a < b on str
RECURSIVE str_lt(_, _)
str_lt(a, b) ==
    IF b = <<>> THEN FALSE
    ELSE IF a = <<>> THEN TRUE
    ELSE IF Head(a) = Head(b) THEN str_lt(Tail(a), Tail(b))
    ELSE ord(Head(a)) < ord(Head(b))

\* The latency that stands for "none" in the sort key
NoLatencyKey == 1000000000

\* key=lambda r: ((r[2] if r[2] > 0 else 1e9), r[0])
sort_key(r) == [lat |-> IF r.latency > 0 THEN r.latency ELSE NoLatencyKey, name |-> r.name]

key_lt(k1, k2) == k1.lat < k2.lat \/ (k1.lat = k2.lat /\ str_lt(k1.name, k2.name))

\* Whether row r sorts strictly before row e
sorts_before(r, e, reverse) ==
    IF reverse THEN key_lt(sort_key(e), sort_key(r)) ELSE key_lt(sort_key(r), sort_key(e))

\* list.sort is stable, also with reverse=True: a row goes before the first row
\* it sorts strictly before.
RECURSIVE insert_sorted(_, _, _)
insert_sorted(sorted, r, reverse) ==
    IF sorted = <<>> THEN <<r>>
    ELSE IF sorts_before(r, Head(sorted), reverse) THEN <<r>> \o sorted
    ELSE <<Head(sorted)>> \o insert_sorted(Tail(sorted), r, reverse)

RECURSIVE sort_rows(_, _, _)
sort_rows(rows, sorted, reverse) ==
    IF rows = <<>> THEN sorted
    ELSE sort_rows(Tail(rows), insert_sorted(sorted, Head(rows), reverse), reverse)

\* Variant of no_valid_latency: the rows are sorted whatever their latencies.
no_valid_latency_unchecked(rows) == FALSE

\* all((r[2] or 0.0) <= 0.0 for r in rows)
no_valid_latency(rows) == \A i \in 1..Len(rows) : rows[i].latency <= 0

\* on_sort_latency
on_sort_latency(may_fail) ==
    /\ MainFree
    /\ sensitive.sort
    /\ IF ~latency_measured
       THEN /\ toast' = Toast("Run Test All first to get latency results", <<>>)
            /\ UNCHANGED <<data_vars, sort_asc>>
       ELSE IF no_valid_latency(store)
       THEN /\ toast' = Toast("No valid latency to sort", <<>>)
            /\ UNCHANGED <<data_vars, sort_asc>>
       ELSE LET rows == sort_rows(store, <<>>, ~sort_asc) IN
            /\ sort_asc' = ~sort_asc
            /\ profiles' = [i \in 1..Len(rows) |->
                              [name |-> rows[i].name, servers |-> parse_servers(rows[i].servers)]]
            /\ \E w \in save_outcomes(file, profiles', may_fail) :
                 /\ file' = w.file
                 /\ IF w.ok
                    THEN /\ store' = rows
                         /\ toast' = Toast("Sorted", <<>>)
                    ELSE UNCHANGED <<store>> /\ no_toast
    /\ UNCHANGED <<dns, latency_measured, is_setting_dns, button_vars, idle, batches, ops>>

\* ------------------------------------------------------ current DNS display
\* `sub in s` on str
is_substring(sub, s) ==
    \E i \in 1..(Len(s) - Len(sub) + 1) : SubSeq(s, i, i + Len(sub) - 1) = sub

\* The length of the longest run of characters of `chars` in s from position i
\* on, at most `most` long.
RECURSIVE run(_, _, _, _)
run(s, i, chars, most) ==
    IF most = 0 \/ i > Len(s) \/ s[i] \notin chars THEN 0
    ELSE 1 + run(s, i + 1, chars, most - 1)

\* Where (?:\d{1,3}\.){3}\d{1,3} ends when it matches s at position i with
\* `groups` dotted groups still to come; 0 when it does not match. A group is
\* one to three digits with a dot right after them.
RECURSIVE ipv4_end(_, _, _)
ipv4_end(s, i, groups) ==
    LET d == run(s, i, Digits, 3) IN
    IF d = 0 THEN 0
    ELSE IF groups = 0 THEN i + d - 1
    ELSE IF i + d <= Len(s) /\ s[i + d] = "." THEN ipv4_end(s, i + d + 1, groups - 1)
    ELSE 0

\* re.findall(r'((?:\d{1,3}\.){3}\d{1,3}|[\da-fA-F:]+)', line) from position i
\* on: the matches left to right, the dotted quad tried first.
RECURSIVE findall_ips(_, _)
findall_ips(line, i) ==
    IF i > Len(line) THEN <<>>
    ELSE LET e == ipv4_end(line, i, 3)
             h == run(line, i, HexDigits \cup {":"}, Len(line)) IN
         IF e # 0 THEN <<SubSeq(line, i, e)>> \o findall_ips(line, e + 1)
         ELSE IF h # 0 THEN <<SubSeq(line, i, i + h - 1)>> \o findall_ips(line, i + h)
         ELSE findall_ips(line, i + 1)

DNS_SERVERS == <<"D", "N", "S", " ", "S", "e", "r", "v", "e", "r", "s", ":">>

\* The loop over the lines of `resolvectl status device`: the matches of the
\* first line that holds "DNS Servers:" and has any; <<>> when there is none.
RECURSIVE live_ips(_)
live_ips(lines) ==
    IF lines = <<>> THEN <<>>
    ELSE IF is_substring(DNS_SERVERS, Head(lines)) /\ findall_ips(Head(lines), 1) # <<>>
    THEN findall_ips(Head(lines), 1)
    ELSE live_ips(Tail(lines))

\* What get_current_dns returns: a literal text, or the servers joined.
Shown(text, arg) == [text |-> text, arg |-> arg]
CalledProcessError == "Error: Command returned non-zero exit status"

\* The fallback to nmcli of get_current_dns, on the read-back rb.
static_dns(rb) ==
    IF rb.fail # 0 THEN Shown(CalledProcessError, <<>>)
    ELSE LET out4 == strip(rb.out4)
             out6 == strip(rb.out6)
             dns_list == (IF out4 # <<>> THEN split(out4, ";") ELSE <<>>)
                         \o (IF out6 # <<>> THEN split(out6, ";") ELSE <<>>) IN
         IF dns_list # <<>> THEN Shown("", join(<<",", " ">>, dns_list))
         ELSE Shown("DHCP (Auto)", <<>>)

\* get_current_dns(), on what nmcli printed for the active connections
\* (active), on what `resolvectl status device` printed or its failure (status)
\* and on the read-back of the connection's DNS settings (rb).
get_current_dns(active, status, rb) ==
    LET c == get_active_connection_and_device(active) IN
    IF truthy(c.device) /\ ~status.ok THEN Shown(CalledProcessError, <<>>)
    ELSE IF truthy(c.device) /\ live_ips(status.lines) # <<>>
    THEN Shown("", join(<<",", " ">>, live_ips(status.lines)))
    ELSE IF truthy(c.uuid) THEN static_dns(rb)
    ELSE Shown("No active connection", <<>>)

\* What `resolvectl status device` may do: fail, print no DNS line, print the
\* link's servers.
StatusOutputs ==
    { [ok |-> FALSE, lines |-> <<>>],
      [ok |-> TRUE, lines |-> <<>>],
      [ok |-> TRUE, lines |-> << <<"L", "i", "n", "k", " ", "2">> >>],
      [ok |-> TRUE, lines |-> << <<"L", "i", "n", "k", " ", "2">>,
                                 DNS_SERVERS \o <<" ">> \o A_8888 \o <<" ">> \o A_V6 >>] }

\* update_current_dns(): one call of get_current_dns, kept with what the
\* commands answered and the text set on current_dns_label.
update_current_dns(active, status, rb) ==
    /\ MainFree
    /\ ops = {}
    /\ ops' = {[id |-> 1, kind |-> "query", pc |-> "Done", active |-> active,
                status |-> status, rb |-> rb,
                shown |-> get_current_dns(active, status, rb)]}
    /\ UNCHANGED <<dns, data_vars, latency_measured, is_setting_dns, sort_asc,
                   button_vars, idle, batches>> /\ no_toast

\* ------------------------------------------------------------ specification
\* The steps of the worker threads of the probe batches.
batch_steps == \E b \in batches : worker_start(b) \/ worker_probe(b) \/ worker_post_finish(b)

\* The steps of apply_dns_with_one_pkexec and reset_dns_to_automatic, on the
\* answers `outs` of nmcli, with or without partial runs of the privileged
\* command, on the read-backs rbs.
op_steps(outs, partial, rbs) ==
    \E o \in ops : \/ op_validate(o)
                   \/ op_resolve(o, outs)
                   \/ op_apply(o, partial)
                   \/ op_verify(o, rbs)

\* The steps of their callers once they returned or raised.
set_steps == \E o \in ops : set_worker_report(o) \/ set_worker_clear(o)
best_steps == \E o \in ops : finish_best_end(o)
reset_steps == \E o \in ops : reset_worker_report(o)

\* The edits of the profile list, with the dialog entries `entries`, with or
\* without failing writes.
edit_steps(entries, may_fail) ==
    \/ on_sort_latency(may_fail)
    \/ \E e \in entries : on_add_profile_response(e[1], e[2], e[3], may_fail)
    \/ \E idx \in 0..(Len(store) - 1) : on_delete_clicked(idx, may_fail)

\* The whole program.
Next ==
    \/ on_test_all
    \/ on_find_best_dns
    \/ set_clicked
    \/ on_key_released
    \/ on_reset_dns
    \/ edit_steps(AddEntries, TRUE)
    \/ run_idle
    \/ batch_steps
    \/ op_steps(NmcliOutputs, TRUE, ReadBacks)
    \/ set_steps
    \/ best_steps
    \/ reset_steps

Spec == Init /\ [][Next]_vars

\* Activation by every trigger (Set DNS, Enter, Find Best DNS) and reset, where
\* the connection is the wifi one, the privileged command is refused or runs
\* whole and the read-back is empty or not.
OneWifi == {[ok |-> TRUE, lines |-> <<Line(U1, WIFI, DEV0), <<" ">>>>]}
TwoReadBacks == {rb \in ReadBacks : rb.fail = 0 /\ rb.out4 = rb.out6}

InitKeys == InitFrom(FileMixed, TRUE)

NextKeys ==
    \/ on_find_best_dns
    \/ set_clicked
    \/ on_key_released
    \/ on_reset_dns
    \/ run_idle
    \/ batch_steps
    \/ op_steps(OneWifi, FALSE, TwoReadBacks)
    \/ set_steps
    \/ best_steps
    \/ reset_steps

SpecKeys == InitKeys /\ [][NextKeys]_vars

\* Activation by every trigger, in every environment, on each kind of profile.
InitApply == \E f \in {FileV4, FileV6, FileMixed, FileLegacy, FileSingle} : InitFrom(f, TRUE)

NextApply ==
    \/ on_find_best_dns
    \/ set_clicked
    \/ on_key_released
    \/ run_idle
    \/ batch_steps
    \/ op_steps(NmcliOutputs, TRUE, ReadBacks)
    \/ set_steps
    \/ best_steps

SpecApply == InitApply /\ [][NextApply]_vars

\* The probe batches while the profile list is edited.
InitProbe == \E d \in BOOLEAN : InitFrom(FileTwo, d)

NextProbe ==
    \/ on_test_all
    \/ on_find_best_dns
    \/ edit_steps({ValidEntry}, FALSE)
    \/ run_idle
    \/ batch_steps
    \/ op_steps(OneWifi, FALSE, TwoReadBacks)
    \/ best_steps

SpecProbe == InitProbe /\ [][NextProbe]_vars

\* The profile list over adds, deletes, failing writes and restarts, from no
\* file, an unparsable one, one with a single-server record and one with two
\* records.
Unparsable == [state |-> "corrupt", data |-> <<>>]

InitStore == \E f \in {NoFile, Unparsable, FileSingle, FileTwo} : InitFrom(f, TRUE)

NextStore ==
    \/ \E e \in AddEntries : on_add_profile_response(e[1], e[2], e[3], TRUE)
    \/ \E idx \in 0..(Len(store) - 1) : on_delete_clicked(idx, TRUE)
    \/ restart

SpecStore == InitStore /\ [][NextStore]_vars

\* The same with Test All batches and sorts, where the user edits the list
\* between the batches.
edits_between_batches(entries, may_fail) ==
    /\ idle = <<>>
    /\ batches = {}
    /\ edit_steps(entries, may_fail)

InitEdits == \E f \in {NoFile, Unparsable} : InitFrom(f, TRUE)

NextEdits ==
    \/ on_test_all
    \/ edits_between_batches({ValidEntry}, TRUE)
    \/ restart
    \/ run_idle
    \/ batch_steps

SpecEdits == InitEdits /\ [][NextEdits]_vars

\* load_profiles and the start of the program on what a file may hold: one
\* record, or a well-formed record and another, each name and servers of any
\* JSON type, or a record that is no object.
GoodRecord == [name |-> JStr(N_B), servers |-> JList(<<A_1111, A_1001>>)]

LoadNames ==
    { JStr(N_A), JStr(<<" ">> \o N_A), JStr(<<>>), JNull, JNum(0), JNum(5), JList(<<>>),
      JList(<<N_A>>) }

LoadServers ==
    { JList(<<A_8888, A_8844>>), JList(<<>>), JStr(A_1001 \o <<",">> \o A_999), JStr(<<>>),
      JNull, JNum(0), JNum(5), JItems(<<JNum(8), JStr(A_8844)>>) }

LoadRecords ==
    {[name |-> n, servers |-> s] : n \in LoadNames, s \in LoadServers}
    \cup {JStr(N_A), JNum(5), JNull}

LoadContents ==
    {NoFile, Unparsable, [state |-> "json", data |-> <<>>]}
    \cup {[state |-> "json", data |-> <<r>>] : r \in LoadRecords}
    \cup {[state |-> "json", data |-> <<GoodRecord, r>>] : r \in LoadRecords}

InitLoad == \E f \in LoadContents : BeforeStart(f)

NextLoad == start

SpecLoad == InitLoad /\ [][NextLoad]_vars

\* save_profiles and load_profiles on the sequences of at most two records whose
\* name is empty, bare or padded with a blank and whose servers are none, one or
\* two strings, bare or padded.
RoundTripRecords ==
    {[name |-> n, servers |-> l] :
        n \in {<<>>, N_A, <<" ">> \o N_A, N_B \o <<" ">>},
        l \in {<<>>, <<A_8888>>, <<A_1111, A_1001>>, <<<<" ">> \o A_8888, A_8844>>}}

RoundTripInputs ==
    {<<>>} \cup {<<r>> : r \in RoundTripRecords}
           \cup {<<r, q>> : r \in RoundTripRecords, q \in RoundTripRecords}

InitRound == \E x \in RoundTripInputs : Holding(x)

NextRound == save \/ load

SpecRound == InitRound /\ [][NextRound]_vars

\* sanitize_servers on the lists of at most three candidates that are empty,
\* blank, an address bare or padded, a string that is no address, an IPv6
\* address: apply_dns_with_one_pkexec is called with the list, as a test of the
\* function would call it, and runs its first statement.
SanitizeCandidates == {<<>>, <<" ">>, A_1111, <<" ">> \o A_1001 \o <<" ">>, A_999, A_V6}

SanitizeInputs ==
    {<<>>} \cup {<<a>> : a \in SanitizeCandidates}
           \cup {<<a, b>> : a \in SanitizeCandidates, b \in SanitizeCandidates}
           \cup {<<a, b, c>> : a \in SanitizeCandidates, b \in SanitizeCandidates,
                               c \in SanitizeCandidates}

apply_dns_called(servers) ==
    /\ ops = {}
    /\ ops' = {NewOp("set", 0, servers)}
    /\ UNCHANGED <<dns, data_vars, latency_measured, is_setting_dns, sort_asc,
                   button_vars, idle, batches>> /\ no_toast

InitSanitize == InitFrom(FileV4, TRUE)

NextSanitize ==
    \/ \E servers \in SanitizeInputs : apply_dns_called(servers)
    \/ \E o \in ops : op_validate(o)

SpecSanitize == InitSanitize /\ [][NextSanitize]_vars

\* get_current_dns on every answer of the three commands it runs.
InitStatus == InitFrom(FileV4, TRUE)

NextStatus ==
    \E active \in NmcliOutputs, status \in StatusOutputs, rb \in ReadBacks :
        update_current_dns(active, status, rb)

SpecStatus == InitStatus /\ [][NextStatus]_vars

\* The four operations (Test All, Find Best DNS, Set DNS by button and by Enter,
\* Reset DNS) together, in the environment of SpecKeys.
InitButtons == InitFrom(FileV4, TRUE)

NextButtons ==
    \/ on_test_all
    \/ on_find_best_dns
    \/ set_clicked
    \/ on_key_released
    \/ on_reset_dns
    \/ run_idle
    \/ batch_steps
    \/ op_steps(OneWifi, FALSE, TwoReadBacks)
    \/ set_steps
    \/ best_steps
    \/ reset_steps

SpecButtons == InitButtons /\ [][NextButtons]_vars

\* ------------------------------------------------------------- properties
Range(seq) == {seq[i] : i \in 1..Len(seq)}
IsPrefix(seq, of) == Len(seq) <= Len(of) /\ seq = SubSeq(of, 1, Len(seq))

\* The executions of apply_dns_with_one_pkexec, and those of the Set DNS workers.
Activations == {o \in ops : o.kind \in {"set", "best"}}
SetOps == {o \in ops : o.kind = "set"}

\* An execution that has begun and has not yet returned or raised.
InFlight(o) == o.phases # <<>> /\ o.pc \in {"Resolving", "Applying", "Verifying"}

\* An execution that has raised (a Set DNS worker keeps the exception until it ends).
HasFailed(o) == o.pc \in {"Failed", "Finally"} /\ o.error # ""

\* C1: at every moment at most one execution of apply_dns_with_one_pkexec is in
\* flight, whichever of Set DNS, Enter and the completion of Find Best DNS
\* started it.
AtMostOneActivationInFlight == Cardinality({o \in Activations : InFlight(o)}) <= 1

\* C2: while a Set DNS worker has not ended no second one is started, the flag
\* _is_setting_dns stays set until the worker's apply has returned or raised, and
\* the worker invokes pkexec at most once (exactly once when it gets past
\* Applying).
SecondSetRequestRejected ==
    /\ Cardinality(SetOps) <= 1
    /\ \A o \in SetOps :
         /\ is_setting_dns
         /\ Len(o.pkexec) <= 1
         /\ "Applying" \in Range(o.phases) => Len(o.pkexec) = 1

\* C2, the case: a Set DNS worker is between pkexec and the read-back, the flag
\* is set, and the Set DNS button (re-enabled by a reset that ended meanwhile)
\* and the Enter key both accept a second request.
SetRequestedWhileApplying ==
    \E o \in SetOps :
        /\ o.pc = "Verifying"
        /\ Len(o.pkexec) = 1
        /\ is_setting_dns /\ sensitive.set /\ MainFree /\ store # <<>>

\* A server list that sanitize_servers must refuse: a non-empty entry that is no
\* IP address, or fewer than two non-empty entries.
HasInvalidAddress(servers) ==
    \E i \in 1..Len(servers) : strip(servers[i]) # <<>> /\ ~is_valid_ip(servers[i])
FailsValidation(servers) == HasInvalidAddress(servers) \/ Len(strip_nonempty(servers)) < 2

\* C3: an activation whose servers fail validation has failed with InvalidAddress
\* or InsufficientServers once validation ran, without the connection lookup and
\* without pkexec; one that found no active connection has failed with
\* NoActiveConnection without pkexec.
PreconditionFailureBeforeSideEffect ==
    \A o \in Activations :
        /\ o.phases # <<>> /\ FailsValidation(o.arg) =>
              /\ HasFailed(o)
              /\ o.exc = "ValueError"
              /\ o.error = (IF HasInvalidAddress(o.arg) THEN InvalidAddress ELSE InsufficientServers)
              /\ o.phases = <<"Validating">>
              /\ o.plain = <<>>
              /\ o.pkexec = <<>>
        /\ "Resolving" \in Range(o.phases) /\ ~truthy(o.uuid) =>
              /\ HasFailed(o)
              /\ o.error = NoActiveConnection
              /\ o.pkexec = <<>>

\* C3, the case: a Set DNS activation has failed on an invalid address.
InvalidAddressRefused ==
    \E o \in SetOps : o.pc = "Failed" /\ o.error = InvalidAddress /\ HasInvalidAddress(o.arg)

\* pkexec was invoked and every command of its bundle succeeded.
Applied(o) == o.pkexec # <<>> /\ o.ran = Len(o.cmd_parts)

\* C4: the read-back runs only after pkexec succeeded; an empty read-back of both
\* families ends the activation with NotVisible, an error that differs from the
\* one of a failed pkexec, which is raised only when pkexec failed and without
\* any read-back.
VerificationFailureDistinct ==
    /\ NotVisible # ApplyFailed
    /\ \A o \in Activations :
         LET verified == "Verifying" \in Range(o.phases) IN
         /\ o.pc = "Verifying" \/ verified => Applied(o)
         /\ verified /\ o.error # VerifyFailed /\ o.out4 = <<>> /\ o.out6 = <<>> =>
               HasFailed(o) /\ o.error = NotVisible
         /\ o.error = NotVisible => verified /\ o.out4 = <<>> /\ o.out6 = <<>>
         /\ o.error = ApplyFailed => ~verified /\ o.pkexec # <<>> /\ o.ran < Len(o.cmd_parts)

\* C4, the case: pkexec ran every command and the read-back was empty.
AppliedButNotVisible ==
    \E o \in Activations : o.pc = "Failed" /\ o.error = NotVisible /\ Applied(o)

Phases == <<"Validating", "Resolving", "Applying", "Verifying">>

\* The phase an error is raised in (0: no error).
PhaseOf(error) ==
    IF error \in {InvalidAddress, InsufficientServers} THEN 1
    ELSE IF error = NoActiveConnection THEN 2
    ELSE IF error = ApplyFailed THEN 3
    ELSE IF error \in {NotVisible, VerifyFailed} THEN 4
    ELSE 0

\* C5: the phases an activation has run are a prefix of Validating, Resolving,
\* Applying, Verifying, each run once; it is Done only after all four and without
\* an error; once it has failed it holds one error, that of the last phase it
\* ran, and no later phase has run.
PhasesInOrder ==
    \A o \in Activations :
        /\ IsPrefix(o.phases, Phases)
        /\ \A k \in 1..4 : o.pc = Phases[k] => Len(o.phases) = k - 1 /\ o.error = ""
        /\ o.pc = "Done" => o.phases = Phases /\ o.error = ""
        /\ o.pc = "Failed" => o.error # ""
        /\ o.error = "" /\ o.pc = "Finally" => o.phases = Phases
        /\ o.error # "" => o.pc \in {"Failed", "Finally"} /\ Len(o.phases) = PhaseOf(o.error)

\* C5, the case: the activation started by Find Best DNS is Done after the four
\* phases.
BestActivationDone == \E o \in Activations : o.kind = "best" /\ o.pc = "Done" /\ o.phases = Phases

\* The commands of the bundle that succeeded.
Performed(o) == IF o.pkexec = <<>> THEN {} ELSE {o.cmd_parts[i] : i \in 1..o.ran}

\* pkexec returned with exit status 0: the apply step reports success.
ReportsApplied(o) == "Applying" \in Range(o.phases) /\ o.error # ApplyFailed

\* The writes to the connection: the static DNS list of each family, with the
\* auto-DNS suppression flag for a family that has servers, and the
\* re-activation.
ConnectionWrites(o) ==
    { Cmd(NMCLI_MODIFY, o.uuid,
          IF ipv4_list(o.servers) # <<>> THEN "ipv4.ignore-auto-dns yes ipv4.dns" ELSE "ipv4.dns",
          ipv4_list(o.servers)),
      Cmd(NMCLI_MODIFY, o.uuid,
          IF ipv6_list(o.servers) # <<>> THEN "ipv6.ignore-auto-dns yes ipv6.dns" ELSE "ipv6.dns",
          ipv6_list(o.servers)),
      Cmd(NMCLI_UP, o.uuid, "", <<>>) }

\* The live resolver override for the device and the resolver-cache flush.
ResolverWrites(o) ==
    { Cmd(RESOLVECTL_DNS, o.device, "", o.servers), Cmd(RESOLVECTL_FLUSH, <<>>, "", <<>>) }

\* C6 as amended: an apply reports success only if every command of its bundle
\* succeeded: the writes to the connection and, when the connection has a device
\* name, the resolver override and the cache flush; without a device name these
\* two are not part of the bundle. When a command of the bundle fails the apply
\* fails with ApplyFailed.
SuccessOnlyIfBundleSucceeded ==
    \A o \in Activations :
        /\ ReportsApplied(o) =>
              /\ Performed(o) = Range(o.cmd_parts)
              /\ ConnectionWrites(o) \subseteq Performed(o)
              /\ truthy(o.device) => ResolverWrites(o) \subseteq Performed(o)
              /\ ~truthy(o.device) => Performed(o) = ConnectionWrites(o)
        /\ "Applying" \in Range(o.phases) /\ o.ran < Len(o.cmd_parts) =>
              HasFailed(o) /\ o.error = ApplyFailed

\* C6, the case: success reported for IPv6 servers on a connection without a
\* device name.
AppliedWithoutDevice ==
    \E o \in Activations :
        /\ o.pc = "Done"
        /\ ~truthy(o.device)
        /\ ipv4_list(o.servers) = <<>>

\* C6 as stated: an apply reports success only if the static DNS list, the
\* suppression flag, the resolver override for the device and the cache flush
\* all succeeded.
SuccessOnlyIfAllWritesSucceeded ==
    \A o \in Activations :
        ReportsApplied(o) => (ConnectionWrites(o) \cup ResolverWrites(o)) \subseteq Performed(o)

\* The commands the program runs without privilege: they read.
ReadCommands ==
    { "nmcli connection show --active",
      "nmcli -g ipv4.dns connection show",
      "nmcli -g ipv6.dns connection show" }

\* C7: an activation or a reset issues at most one pkexec request, exactly one
\* once it has reached its apply step; the request carries every command the
\* operation built, and what runs outside it only reads.
OnePrivilegedRequest ==
    \A o \in ops :
        /\ Len(o.pkexec) <= 1
        /\ "Applying" \in Range(o.phases) => o.pkexec = <<o.cmd_parts>> /\ o.cmd_parts # <<>>
        /\ "Applying" \notin Range(o.phases) => o.pkexec = <<>>
        /\ Range(o.plain) \subseteq ReadCommands

\* C7, the case: a reset has run its four commands in one request.
ResetInOneRequest ==
    \E o \in ops : o.kind = "reset" /\ o.pc = "Done" /\ Len(o.pkexec) = 1 /\ Len(o.pkexec[1]) = 4

\* The updates delivered to index i in batch b.
UpdatesOf(b, i) == {k \in 1..Len(b.delivered) : b.delivered[k].idx = i}

\* finish() of batch b is the next callback the main loop runs.
FinishNext(b) == idle # <<>> /\ Head(idle).kind = "finish" /\ Head(idle).b = b.id

\* C8: when a batch over n profiles completes, every index 0..n-1 has received
\* exactly one latency update.
EveryIndexUpdatedOnce ==
    \A b \in batches :
        FinishNext(b) => \A i \in 0..(b.n - 1) : Cardinality(UpdatesOf(b, i)) = 1

\* C9: finish() of a batch stores TRUE in _latency_measured if and only if an
\* update delivered in that batch (the callback run with its value, whether or
\* not the row still exists) carried a value greater than 0.
AnySucceededIffPositiveUpdate ==
    [][\A b \in batches :
           FinishNext(b) /\ idle' = Tail(idle) =>
               (latency_measured' <=> \E k \in 1..Len(b.delivered) : b.delivered[k].val > 0)]_vars

\* C9, the case: Test All has finished after an update with a positive value.
TestAllFoundLatency ==
    /\ latency_measured
    /\ toast = Toast("Tests completed", <<>>)
    /\ \E i \in 1..Len(store) : store[i].latency > 0

\* The probes of batch b with a positive latency, and the one best selection
\* must return: the least latency, the lowest index among equals.
Positive(b) == {k \in 1..Len(b.probed) : b.probed[k].lat > 0}
Best(b) ==
    CHOOSE k \in Positive(b) :
        \A j \in Positive(b) :
            \/ b.probed[k].lat < b.probed[j].lat
            \/ b.probed[k].lat = b.probed[j].lat /\ b.probed[k].idx <= b.probed[j].idx

\* C10: the selection of Find Best DNS is the index of the least positive
\* latency probed, the lowest one among equals, with the servers probed at it;
\* without a positive latency nothing is selected and no apply is started; the
\* apply is called with the servers of the selected index.
BestSelection ==
    \A b \in batches :
        b.kind = "best" =>
            /\ IF Positive(b) = {}
               THEN b.best_index = -1 /\ b.best_servers = <<>> /\ b.best_latency = Inf
               ELSE /\ b.best_index = b.probed[Best(b)].idx
                    /\ b.best_servers = b.probed[Best(b)].servers
                    /\ b.best_latency = b.probed[Best(b)].lat
            /\ \A o \in ops :
                 o.kind = "best" /\ o.owner = b.id =>
                     Positive(b) # {} /\ o.arg = b.probed[Best(b)].servers

\* C10, the case: two profiles probed with the same positive latency, and the
\* apply started with the first.
TieGoesToLowestIndex ==
    \E b \in batches :
        /\ b.kind = "best" /\ b.pc = "finishing"
        /\ Len(b.probed) = 2
        /\ b.probed[1].lat > 0 /\ b.probed[1].lat = b.probed[2].lat
        /\ b.best_index = 0
        /\ \E o \in ops : o.kind = "best" /\ o.owner = b.id /\ o.arg = b.probed[1].servers

\* The last step was a sort that went through.
Sorted == toast = Toast("Sorted", <<>>)

\* C11: after a sort in either direction no row without a positive latency
\* stands before a row with one.
NoLatencyRowsLast ==
    Sorted =>
        \A i \in 1..Len(store), j \in 1..Len(store) :
            i < j /\ store[i].latency <= 0 => store[j].latency <= 0

\* The toasts of a sort request that is turned down.
SortRejections ==
    { Toast("Run Test All first to get latency results", <<>>),
      Toast("No valid latency to sort", <<>>) }

\* C12: a sort request that is turned down leaves the profiles, the store, the
\* file and the next direction as they were; and when the last batch measured
\* nothing or no row has a positive latency, no step sorts: the direction stays
\* and no sort goes through.
SortRejectedChangesNothing ==
    [][/\ toast' \in SortRejections => UNCHANGED <<profiles, store, file, sort_asc>>
       /\ ~latency_measured \/ ~(\E i \in 1..Len(store) : store[i].latency > 0) =>
             sort_asc' = sort_asc /\ toast' # Toast("Sorted", <<>>)]_vars

\* C12, the case: a batch measured a latency, no row holds one any more, and the
\* sort request was turned down.
SortTurnedDown ==
    /\ toast = Toast("No valid latency to sort", <<>>)
    /\ latency_measured
    /\ store # <<>>

\* The toasts that end an edit of the profile list that went through.
EditToasts ==
    { Toast("Profile added", <<>>), Toast("Profile deleted", <<>>), Toast("Sorted", <<>>) }

\* A start that finds no profile and seeds the defaults.
Bootstrap == restart /\ load_profiles(file) = <<>>

\* C13: after every step in which an add, a delete or a sort went through or a
\* start seeded the defaults, the file holds the in-memory profile sequence, in
\* its order.
FileHoldsProfilesAfterEdit ==
    [][toast' \in EditToasts \/ Bootstrap => file' = dump_profiles(profiles')]_vars

\* C13, the case: an edit went through after a write had failed, on profiles
\* that differ from what the file held at startup.
EditSavedAfterFailedWrite ==
    /\ toast \in EditToasts
    /\ Len(profiles) # Len(store)
    /\ profiles # <<>>

\* C14: every server a probe batch handed to measure_dns_latency, and every
\* server of an activation that issued its privileged command, is an address
\* that validates.
OnlyValidatedServersUsed ==
    /\ \A b \in batches : \A k \in 1..Len(b.probed) :
           \A s \in Range(b.probed[k].servers) : is_valid_ip(s)
    /\ \A o \in Activations :
           o.pkexec # <<>> => \A s \in Range(o.servers) : is_valid_ip(s)

\* C15: every record of the file has at least two servers once an edit was
\* saved, and every activation that issued its privileged command did so for at
\* least two servers.
AtLeastTwoServersSaved ==
    /\ toast \in EditToasts =>
           \A i \in 1..Len(file.data) : Len(load_servers(file.data[i].servers)) >= 2
    /\ \A o \in Activations : o.pkexec # <<>> => Len(o.servers) >= 2

\* A probe batch whose worker runs or whose finish() waits in the idle queue.
BatchInFlight(b) == b.pc \in {"start", "loop", "posted"}

\* C16: while a probe batch is in flight the button that starts a batch of its
\* kind is disabled, and at most one Set DNS worker is in flight.
TriggerDisabledWhileInFlight ==
    /\ \A b \in batches :
           BatchInFlight(b) =>
               /\ b.kind = "best" => ~sensitive.best
               /\ b.kind = "test" => ~sensitive.test
    /\ Cardinality({o \in SetOps : InFlight(o)}) <= 1

\* C17: the defaults are seeded once: in a run whose first start seeded them
\* (every run of SpecEdits: no file, or an unparsable one), no later start
\* seeds them again.
SeedCreatedOnce == [][~Bootstrap]_vars

\* C18: whatever the file holds, every record load_profiles returns has a list
\* of strings as servers, and load_profiles returns no record only for a file
\* that is missing, unparsable or an empty array.
LoadCoercesEveryRecord ==
    /\ strings_only(load_any(file))
    /\ load_any(file) = <<>> => file.state # "json" \/ file.data = <<>>

\* The file holds what save_profiles wrote for the profiles in memory.
Saved == file = dump_profiles(profiles)

\* No name of the profiles in memory begins or ends with whitespace.
NamesTrimmed == \A i \in 1..Len(profiles) : strip(profiles[i].name) = profiles[i].name

\* C19, as stated: loading what was saved yields the same records in the same
\* order, and saving what was loaded leaves the file as it is.
RoundTrip ==
    [][load /\ Saved => profiles' = profiles /\ dump_profiles(profiles') = file]_vars

\* C19, amended: the same for the sequences none of whose names begins or ends
\* with whitespace.
RoundTripOfTrimmedNames ==
    [][load /\ Saved /\ NamesTrimmed =>
          profiles' = profiles /\ dump_profiles(profiles') = file]_vars

\* C19, the case: two records with bare names were saved, and loading the file
\* yields them.
SavedAndLoadedBack ==
    /\ Saved
    /\ NamesTrimmed
    /\ Len(profiles) = 2
    /\ profiles[1].name # <<>>
    /\ load_profiles(file) = profiles

\* The candidates trimmed, without the empty ones, in input order.
Trimmed(candidates) ==
    SelectSeq([i \in 1..Len(candidates) |-> strip(candidates[i])], LAMBDA s : s # <<>>)

\* The positions of the trimmed candidates that are no address.
InvalidAt(t) == {i \in 1..Len(t) : ~is_valid_ip(t[i])}

\* C20: sanitize_servers fails with InvalidAddress, naming the first trimmed
\* non-empty candidate that does not validate, whenever there is one, however
\* few candidates there are; otherwise it fails with InsufficientServers when
\* fewer than two remain; otherwise it returns the trimmed non-empty candidates
\* in input order. The caller fails or goes on with that list accordingly.
SanitizeOutcome ==
    \A o \in ops :
        LET t == Trimmed(o.arg)
            r == sanitize_servers(o.arg) IN
        /\ IF InvalidAt(t) # {}
           THEN r = [error |-> InvalidAddress,
                     out |-> <<t[CHOOSE i \in InvalidAt(t) : \A j \in InvalidAt(t) : i <= j]>>]
           ELSE IF Len(t) < 2
           THEN r = [error |-> InsufficientServers, out |-> <<>>]
           ELSE r = [error |-> "", out |-> t]
        /\ o.phases # <<>> =>
               IF r.error # "" THEN o.pc = "Failed" /\ o.error = r.error
               ELSE o.pc = "Resolving" /\ o.servers = t

\* C20, the case: a single candidate that is no address was refused as
\* InvalidAddress, not as InsufficientServers.
LoneInvalidAddressReported ==
    \E o \in ops :
        /\ o.phases # <<>>
        /\ Len(Trimmed(o.arg)) = 1
        /\ o.error = InvalidAddress

\* The calls of get_current_dns.
Queries == {o \in ops : o.kind = "query"}

\* C21: get_current_dns returns an error text only as the last resort: when
\* the connection is known and its static DNS settings can be read, it shows
\* them or the automatic indicator, also when the device-level status query
\* failed.
ErrorOnlyAsLastResort ==
    \A o \in Queries :
        truthy(get_active_connection_and_device(o.active).uuid) /\ o.rb.fail = 0 =>
            o.shown.text # CalledProcessError

\* The update callbacks of batch b still waiting in the idle queue.
PendingUpdates(b) == {k \in 1..Len(idle) : idle[k].kind = "update" /\ idle[k].b = b.id}

\* C22, as stated: when finish() of a batch is about to run, every update its
\* worker posted has been written to the store.
UpdatesAppliedBeforeFinish ==
    \A b \in batches :
        FinishNext(b) =>
            /\ PendingUpdates(b) = {}
            /\ Len(b.delivered) = Len(b.probed)
            /\ \A k \in 1..Len(b.delivered) : b.delivered[k].applied

\* C22, amended: when finish() of a batch is about to run, every update its
\* worker posted has been run, in the order of the measurements and with their
\* values; an update is written to the store when the store has a row at its
\* index at that moment.
UpdatesRunBeforeFinish ==
    \A b \in batches :
        FinishNext(b) =>
            /\ PendingUpdates(b) = {}
            /\ Len(b.delivered) = Len(b.probed)
            /\ \A k \in 1..Len(b.delivered) :
                   /\ b.delivered[k].idx = b.probed[k].idx
                   /\ b.delivered[k].val = b.probed[k].lat

\* C22, the case: finish() of a batch that measured two profiles is about to
\* run.
FinishAfterTwoUpdates ==
    \E b \in batches : FinishNext(b) /\ Len(b.probed) = 2 /\ Len(b.delivered) = 2

\* C23: an update that writes a latency to a row of the store writes it to a
\* row with the servers the latency was measured on.
LatencyLandsOnMeasuredProfile ==
    [][idle # <<>> /\ Head(idle).kind = "update" /\ idle' = Tail(idle)
          /\ Head(idle).idx < Len(store) =>
          \A b \in batches :
              b.id = Head(idle).b =>
                  parse_servers(store[Head(idle).idx + 1].servers)
                      = b.probed[Len(b.delivered) + 1].servers]_vars

\* C24: the in-memory profile list and the displayed store have the same length
\* and agree index by index on name and servers.
ProfilesMatchStore ==
    /\ Len(profiles) = Len(store)
    /\ \A i \in 1..Len(store) :
           /\ i <= Len(profiles)
           /\ profiles[i].name = store[i].name
           /\ profiles[i].servers = parse_servers(store[i].servers)

\* The names of the rows of the store whose servers are `servers`.
NamesOf(servers) == {store[i].name : i \in {j \in 1..Len(store) : parse_servers(store[j].servers) = servers}}

\* C25: when finish() of Find Best DNS reports after its apply, it shows the
\* failure toast only if the apply failed, and after an apply that succeeded it
\* shows the applied toast with the name of a profile that has the servers
\* applied.
BestOutcomeReported ==
    [][\A o \in ops :
           o.kind = "best" /\ o \notin ops' =>
               /\ toast'.text = "Failed to apply DNS" => o.pc = "Failed"
               /\ o.pc = "Done" =>
                      /\ toast'.text = "Applied fastest DNS"
                      /\ toast'.arg \in NamesOf(o.arg)]_vars

\* The executions of reset_dns_to_automatic.
Resets == {o \in ops : o.kind = "reset"}

\* C26: the privileged command of a reset and the one of an activation never
\* execute at the same time.
ResetAndActivationApart ==
    \A r \in Resets, a \in Activations : ~(r.pc = "Applying" /\ a.pc = "Applying")

\* No operation is in flight and the main loop has nothing left to run.
Quiescent == batches = {} /\ ops = {} /\ idle = <<>>

\* C27: once no operation is in flight and the idle queue is drained,
\* _is_setting_dns is false and the Test All, Set DNS, Find Best DNS and Reset
\* DNS buttons are enabled with their idle labels.
BookkeepingRestored ==
    Quiescent =>
        /\ ~is_setting_dns
        /\ sensitive.test /\ sensitive.set /\ sensitive.best /\ sensitive.reset
        /\ label.test = "Test All" /\ label.set = "Set DNS"
        /\ label.best = "Find Best DNS" /\ label.reset = "Reset DNS"

\* C27, the case: a probe batch that measured a latency has completed, and
\* nothing is in flight or queued.
QuiescentAfterBatch == Quiescent /\ latency_measured /\ sensitive.sort
====
